---------------------------- MODULE Spec2Model ----------------------------
(***************************************************************************)
(* picture-dater (src/main.go): a recursive directory walk that annotates  *)
(* every eligible picture with a caption, either synchronously or with one *)
(* goroutine per directory entry, admitted through the buffered channel    *)
(* `guard` and awaited through the sync.WaitGroup `wg`.                    *)
(*                                                                         *)
(* Names are tuples of one-character strings, paths are sequences of       *)
(* names (path.Join appends a component, path.Base takes the last one).    *)
(***************************************************************************)
EXTENDS Integers, Sequences, FiniteSets, TLC

(***************************************************************************)
(* Bounds of the model.                                                    *)
(***************************************************************************)
MaxGoroutines == 3      \* -max-goroutines ranges over 0..MaxGoroutines
MaxDepth == 2           \* deepest chain of nested subdirectories explored
MaxYear == 2024         \* file names carry the years 2023..MaxYear,
MaxMonth == 13          \* the month numbers 0..MaxMonth
MaxDay == 32            \* and the day numbers 0..MaxDay
MaxTextSize == 120      \* -text-size ranges over -MaxTextSize..MaxTextSize
MarginStep == 15        \* -bottom-margin is the default plus or minus up to
MaxMarginSteps == 12    \* MaxMarginSteps times MarginStep

(***************************************************************************)
(* Characters and names.                                                   *)
(***************************************************************************)
Digits == {"0", "1", "2", "3", "4", "5", "6", "7", "8", "9"}

DigitVal(c) ==
    CASE c = "0" -> 0 [] c = "1" -> 1 [] c = "2" -> 2 [] c = "3" -> 3
      [] c = "4" -> 4 [] c = "5" -> 5 [] c = "6" -> 6 [] c = "7" -> 7
      [] c = "8" -> 8 [] c = "9" -> 9

\* The element of a set of one element.  A value assigned once and used
\* several times (v := e) is the element x of {e} in {... x ... : x \in {e}}.
Only(S) == CHOOSE x \in S : TRUE

\* s[from..] : the suffix of s starting at index from (1-based).
Drop(s, from) == SubSeq(s, from, Len(s))

\* strings.HasPrefix(s, p)
HasPrefix(s, p) == Len(p) <= Len(s) /\ SubSeq(s, 1, Len(p)) = p

\* strings.Contains(s, sub)
Contains(s, sub) ==
    \E i \in 1..(Len(s) + 1) : HasPrefix(Drop(s, i), sub)

\* filepath.Ext(name): the suffix beginning at the final dot of the name,
\* empty when there is no dot.
Ext(name) ==
    LET dots == {i \in 1..Len(name) : name[i] = "."}
    IN  IF dots = {} THEN <<>>
        ELSE Drop(name, CHOOSE i \in dots : \A j \in dots : j <= i)

\* path.Join(dir, name) and path.Base(p) on sequences of components.
Join(dir, name) == Append(dir, name)

Base(p) == IF p = <<>> THEN <<".">> ELSE p[Len(p)]


(***************************************************************************)
(* time.Parse("2006-01-02_15-04-05-pola.jpg", name) (main.go:147).  The    *)
(* layout is: four-digit year, "-", two-digit month, "-", two-digit day,   *)
(* "_", hour, "-", two-digit minute, "-", two-digit second, "-pola.jpg".   *)
(***************************************************************************)
IsDigit(v, i) == i <= Len(v) /\ v[i] \in Digits

Num2(v) == 10 * DigitVal(v[1]) + DigitVal(v[2])

IsLeap(y) == y % 4 = 0 /\ (y % 100 # 0 \/ y % 400 = 0)

DaysIn(m, y) ==
    IF m = 2 THEN (IF IsLeap(y) THEN 29 ELSE 28)
    ELSE IF m \in {4, 6, 9, 11} THEN 30 ELSE 31

PolaSuffix == <<"-", "p", "o", "l", "a", ".", "j", "p", "g">>

NoDate ==
    [ok |-> FALSE, year |-> 0, month |-> 0, day |-> 0,
     hour |-> 0, minute |-> 0, second |-> 0]

\* The character at index i, nothing past the end of the value.
At(v, i) == IF i <= Len(v) THEN v[i] ELSE ""

NumAt(v, i) == 10 * DigitVal(v[i]) + DigitVal(v[i + 1])

\* The year, the month and the day have a fixed width, so the hour starts at
\* index 12.  The hour field (layout "15") takes two digits when the second
\* character is a digit and one digit otherwise; every other numeric field
\* is fixed.
HourLen(v) == IF IsDigit(v, 13) THEN 2 ELSE 1

HourVal(v) == IF IsDigit(v, 13) THEN NumAt(v, 12) ELSE DigitVal(v[12])

\* After the seconds, at index p, a value may carry a fractional second (a
\* period or a comma followed by digits) that the layout does not name; it
\* is consumed.
FracLen(v, p) ==
    IF At(v, p) \in {".", ","} /\ IsDigit(v, p + 1)
    THEN 1 + CHOOSE n \in 1..(Len(v) - p) :
                /\ \A i \in 1..n : IsDigit(v, p + i)
                /\ ~IsDigit(v, p + n + 1)
    ELSE 0

\* the fields are read from left to right; then the month, the hour, the
\* minute and the second are checked against their range and the day
\* against the length of its month
ParseDate(name) ==
    LET m == 12 + HourLen(name)     \* the "-" before the minute
    IN  IF /\ \A i \in {1, 2, 3, 4, 6, 7, 9, 10, 12} : IsDigit(name, i)
           /\ name[5] = "-" /\ name[8] = "-" /\ name[11] = "_"
           /\ At(name, m) = "-"
           /\ IsDigit(name, m + 1) /\ IsDigit(name, m + 2)
           /\ At(name, m + 3) = "-"
           /\ IsDigit(name, m + 4) /\ IsDigit(name, m + 5)
           /\ Drop(name, m + 6 + FracLen(name, m + 6)) = PolaSuffix
           /\ NumAt(name, 6) \in 1..12
           /\ HourVal(name) < 24
           /\ NumAt(name, m + 1) < 60
           /\ NumAt(name, m + 4) < 60
           /\ NumAt(name, 9) >= 1
           /\ NumAt(name, 9) <= DaysIn(NumAt(name, 6),
                                       100 * NumAt(name, 1) + NumAt(name, 3))
        THEN [ok |-> TRUE,
              year |-> 100 * NumAt(name, 1) + NumAt(name, 3),
              month |-> NumAt(name, 6),
              day |-> NumAt(name, 9),
              hour |-> HourVal(name),
              minute |-> NumAt(name, m + 1),
              second |-> NumAt(name, m + 4)]
        ELSE NoDate

(***************************************************************************)
(* Text.  A character is the one-character string of an ASCII character,   *)
(* or the name of its code point: "U+00E9" is e with acute accent,         *)
(* "U+00FB" u with circumflex, "U+0301" and "U+0302" the combining acute   *)
(* accent and circumflex.                                                  *)
(***************************************************************************)
DigitChar(i) ==
    CASE i = 0 -> "0" [] i = 1 -> "1" [] i = 2 -> "2" [] i = 3 -> "3"
      [] i = 4 -> "4" [] i = 5 -> "5" [] i = 6 -> "6" [] i = 7 -> "7"
      [] i = 8 -> "8" [] i = 9 -> "9"

\* strconv.Itoa / the verb %d on a non-negative integer
RECURSIVE Decimal(_)
Decimal(i) == IF i < 10 THEN <<DigitChar(i)>>
              ELSE Append(Decimal(i \div 10), DigitChar(i % 10))

\* the verb %d
Itoa(i) == IF i < 0 THEN <<"-">> \o Decimal(-i) ELSE Decimal(i)

\* strings.Replace(s, old, new, -1) for a non-empty old: every occurrence,
\* left to right, without overlap.
RECURSIVE Replace(_, _, _)
Replace(s, old, new) ==
    IF s = <<>> THEN <<>>
    ELSE IF old # <<>> /\ HasPrefix(s, old)
         THEN new \o Replace(Drop(s, Len(old) + 1), old, new)
         ELSE <<Head(s)>> \o Replace(Tail(s), old, new)

(***************************************************************************)
(* time.Time.Format on the layouts of main.go:156-158 and 172.  A layout   *)
(* is the sequence of its chunks: "02" the two-digit day, "January" the    *)
(* month name, "2006" the four-digit year, "lit" literal text.             *)
(***************************************************************************)
LongMonthNames ==
    <<<<"J", "a", "n", "u", "a", "r", "y">>,
      <<"F", "e", "b", "r", "u", "a", "r", "y">>,
      <<"M", "a", "r", "c", "h">>,
      <<"A", "p", "r", "i", "l">>,
      <<"M", "a", "y">>,
      <<"J", "u", "n", "e">>,
      <<"J", "u", "l", "y">>,
      <<"A", "u", "g", "u", "s", "t">>,
      <<"S", "e", "p", "t", "e", "m", "b", "e", "r">>,
      <<"O", "c", "t", "o", "b", "e", "r">>,
      <<"N", "o", "v", "e", "m", "b", "e", "r">>,
      <<"D", "e", "c", "e", "m", "b", "e", "r">>>>

Std(k) == [std |-> k, text |-> <<>>]

Lit(t) == [std |-> "lit", text |-> t]

\* "January"
LayoutMonth == <<Std("January")>>

\* "January 2006"
LayoutMonthYear == <<Std("January"), Lit(<<" ">>), Std("2006")>>

\* "02 January 2006"
LayoutDayMonthYear ==
    <<Std("02"), Lit(<<" ">>), Std("January"), Lit(<<" ">>), Std("2006")>>

FormatChunk(date, c) ==
    CASE c.std = "02" ->
            <<DigitChar(date.day \div 10), DigitChar(date.day % 10)>>
      [] c.std = "January" -> LongMonthNames[date.month]
      [] c.std = "2006" ->
            <<DigitChar(date.year \div 1000), DigitChar((date.year \div 100) % 10),
              DigitChar((date.year \div 10) % 10), DigitChar(date.year % 10)>>
      [] c.std = "lit" -> c.text

RECURSIVE Format(_, _)
Format(date, layout) ==
    IF layout = <<>> THEN <<>>
    ELSE FormatChunk(date, Head(layout)) \o Format(date, Tail(layout))

\* main.go:36-49: the pairs of the map formats.
formats ==
    <<<<<<"J", "a", "n", "u", "a", "r", "y">>,
         <<"j", "a", "n", "v", "i", "e", "r">>>>,
      <<<<"F", "e", "b", "r", "u", "a", "r", "y">>,
         <<"f", "U+00E9", "v", "r", "i", "e", "r">>>>,
      <<<<"M", "a", "r", "c", "h">>,
         <<"m", "a", "r", "s">>>>,
      <<<<"A", "p", "r", "i", "l">>,
         <<"a", "v", "r", "i", "l">>>>,
      <<<<"M", "a", "y">>,
         <<"m", "a", "i">>>>,
      <<<<"J", "u", "n", "e">>,
         <<"j", "u", "i", "n">>>>,
      <<<<"J", "u", "l", "y">>,
         <<"j", "u", "i", "l", "l", "e", "t">>>>,
      <<<<"A", "u", "g", "u", "s", "t">>,
         <<"a", "o", "U+00FB", "t">>>>,
      <<<<"S", "e", "p", "t", "e", "m", "b", "e", "r">>,
         <<"s", "e", "p", "t", "e", "m", "b", "r", "e">>>>,
      <<<<"O", "c", "t", "o", "b", "e", "r">>,
         <<"o", "c", "t", "o", "b", "r", "e">>>>,
      <<<<"N", "o", "v", "e", "m", "b", "e", "r">>,
         <<"n", "o", "v", "e", "m", "b", "r", "e">>>>,
      <<<<"D", "e", "c", "e", "m", "b", "e", "r">>,
         <<"d", "U+00E9", "c", "e", "m", "b", "r", "e">>>>>>

\* formats[monthKey]: the value of the key, the empty string without it.
FormatsAt(key) ==
    IF \E i \in DOMAIN formats : formats[i][1] = key
    THEN formats[CHOOSE i \in DOMAIN formats : formats[i][1] = key][2]
    ELSE <<>>

\* main.go:171-174
localizeDate(date, layout) ==
    LET monthKey == Format(date, LayoutMonth)
    IN  Replace(Format(date, layout), monthKey, FormatsAt(monthKey))

(***************************************************************************)
(* fmt.Sprintf (main.go:156, 164) on formats                               *)
(* whose verbs carry no flag, width or precision.                          *)
(***************************************************************************)
Missing(verb) == <<"%", "!", verb, "(", "M", "I", "S", "S", "I", "N", "G", ")">>

BadVerb(verb, arg) ==
    <<"%", "!", verb, "(", "s", "t", "r", "i", "n", "g", "=">> \o arg \o <<")">>

RECURSIVE ExtraArgs(_)
ExtraArgs(args) ==
    <<"s", "t", "r", "i", "n", "g", "=">> \o Head(args)
        \o (IF Len(args) = 1 THEN <<>> ELSE <<",", " ">> \o ExtraArgs(Tail(args)))

RECURSIVE Sprintf(_, _)
Sprintf(format, args) ==
    IF format = <<>>
    THEN IF args = <<>> THEN <<>>
         ELSE <<"%", "!", "(", "E", "X", "T", "R", "A", " ">> \o ExtraArgs(args) \o <<")">>
    ELSE IF Head(format) # "%"
         THEN <<Head(format)>> \o Sprintf(Tail(format), args)
         ELSE IF Len(format) = 1
              THEN <<"%", "!", "(", "N", "O", "V", "E", "R", "B", ")">>
                       \o Sprintf(<<>>, args)
              ELSE LET verb == format[2]
                       rest == Drop(format, 3)
                   IN  IF verb = "%" THEN <<"%">> \o Sprintf(rest, args)
                       ELSE IF args = <<>> THEN Missing(verb) \o Sprintf(rest, args)
                       ELSE IF verb \in {"v", "s"}
                            THEN Head(args) \o Sprintf(rest, Tail(args))
                            ELSE BadVerb(verb, Head(args)) \o Sprintf(rest, Tail(args))

\* A date displayed with its two-digit day whatever the day.
DisplayedDatePadded(pictureDate) == localizeDate(pictureDate, LayoutDayMonthYear)

\* main.go:153-159
DisplayedDate(pictureDate) ==
    IF pictureDate.day = 1
    THEN Sprintf(<<"1", "e", "r", " ", "%", "v">>,
                 <<localizeDate(pictureDate, LayoutMonthYear)>>)
    ELSE localizeDate(pictureDate, LayoutDayMonthYear)

(***************************************************************************)
(* norm.NFC (main.go:199-201) on the letters the model uses: a letter      *)
(* followed by a combining accent becomes the accented letter.             *)
(***************************************************************************)
Compositions ==
    << <<"e", "U+0301", "U+00E9">>, <<"E", "U+0301", "U+00C9">>,
       <<"u", "U+0302", "U+00FB">>, <<"a", "U+0300", "U+00E0">> >>

Composable(a, b) ==
    \E i \in DOMAIN Compositions : Compositions[i][1] = a /\ Compositions[i][2] = b

Composed(a, b) ==
    Compositions[CHOOSE i \in DOMAIN Compositions :
                    Compositions[i][1] = a /\ Compositions[i][2] = b][3]

RECURSIVE normalizeUtf8Style(_)
normalizeUtf8Style(value) ==
    IF Len(value) < 2 THEN value
    ELSE IF Composable(value[1], value[2])
         THEN normalizeUtf8Style(<<Composed(value[1], value[2])>> \o Drop(value, 3))
         ELSE <<value[1]>> \o normalizeUtf8Style(Tail(value))

(***************************************************************************)
(* float32 arithmetic of main.go:186-188.  A float32 is [neg, i, f]: the   *)
(* sign and the magnitude i + f / FracUnit; every float32 of magnitude     *)
(* between 2^-1 and 2^23 is such a value.  Each operation rounds its exact *)
(* result to the nearest float32 (24 significant bits, ties to even).      *)
(***************************************************************************)
FracUnit == 2 ^ 25

FloorLog2(i) == CHOOSE e \in 0..30 : 2 ^ e <= i /\ i < 2 ^ (e + 1)

\* the low bits of f that a float32 of magnitude i + f / FracUnit cannot hold
DroppedBits(i, f) ==
    IF i = 0 THEN (IF 2 * f >= FracUnit THEN 1 ELSE 0) ELSE FloorLog2(i) + 2

F32Round(neg, i, f) ==
    LET u    == 2 ^ DroppedBits(i, f)
        low  == f % u
        base == f - low
        up   == 2 * low > u \/ (2 * low = u /\ (base \div u) % 2 = 1)
        g    == IF up THEN base + u ELSE base
    IN  IF g = FracUnit THEN [neg |-> neg, i |-> i + 1, f |-> 0]
        ELSE [neg |-> neg, i |-> i, f |-> g]

\* float32(n)
F32FromInt(n) == [neg |-> n < 0, i |-> IF n < 0 THEN -n ELSE n, f |-> 0]

\* x / 0.75 for a float32 x that is an integer: the quotient 4i/3 has the
\* fraction 0, 1/3 or 2/3, rounded to the bits left after its integer part.
F32DivThreeQuarters(x) ==
    LET q == (4 * x.i) \div 3
        r == (4 * x.i) % 3
        d == DroppedBits(q, 0)
        k == 2 ^ (25 - d)
    IN  IF r = 0 THEN [neg |-> x.neg, i |-> q, f |-> 0]
        ELSE [neg |-> x.neg, i |-> q, f |-> ((2 * r * k + 3) \div 6) * 2 ^ d]

\* x / 2: exact
F32Half(x) ==
    [neg |-> x.neg, i |-> x.i \div 2,
     f |-> (x.i % 2) * (FracUnit \div 2) + x.f \div 2]

\* x as floor + fraction, and back
F32Floor(x) ==
    IF ~x.neg THEN [i |-> x.i, f |-> x.f]
    ELSE IF x.f = 0 THEN [i |-> -x.i, f |-> 0]
         ELSE [i |-> -x.i - 1, f |-> FracUnit - x.f]

\* x - y
F32Sub(x, y) ==
    LET a == F32Floor(x)
        b == F32Floor(y)
        i == IF a.f < b.f THEN a.i - b.i - 1 ELSE a.i - b.i
        f == IF a.f < b.f THEN a.f - b.f + FracUnit ELSE a.f - b.f
    IN  IF i >= 0 THEN F32Round(FALSE, i, f)
        ELSE IF f = 0 THEN F32Round(TRUE, -i, 0)
             ELSE F32Round(TRUE, -i - 1, FracUnit - f)

\* A conversion that rounds down.
F32ToIntFloor(x) == IF x.neg THEN (IF x.f > 0 THEN -x.i - 1 ELSE -x.i) ELSE x.i

\* int32(x): the fraction is dropped
F32ToInt(x) == IF x.neg THEN -x.i ELSE x.i

\* main.go:185
bottomHeightInPixel == 350

\* main.go:186-188: the geometry of -annotate
annotateFormat(textInPointSize, bottomMargin) ==
    LET textInPixel ==
            {F32Half(F32DivThreeQuarters(F32FromInt(textInPointSize)))}
        halfText == {F32Half(t) : t \in textInPixel}
        aboveMargin ==
            {F32Sub(F32Half(F32FromInt(bottomHeightInPixel)), h) : h \in halfText}
        textPositionFromBottom ==
            {F32Sub(a, F32FromInt(bottomMargin)) : a \in aboveMargin}
        offset == {F32ToInt(p) : p \in textPositionFromBottom}
    IN  Only({<<"+", "0", "+">> \o Itoa(o) : o \in offset})

(***************************************************************************)
(* Directory trees.  An entry is [name, isDir, files, readable, toolOk]:    *)
(* files is the listing ioutil.ReadDir returns for a directory (entry ids, *)
(* in listing order), readable tells whether that listing succeeds and     *)
(* toolOk whether the external tool succeeds on the file.  A tree is       *)
(* [top, topReadable, nodes]: the listing of the source directory.         *)
(***************************************************************************)
Pic1 == <<"2", "0", "2", "3", "-", "0", "1", "-", "0", "1", "_", "1", "0", "-",
          "0", "0", "-", "0", "0", "-", "p", "o", "l", "a", ".", "j", "p", "g">>
Pic2 == <<"2", "0", "2", "3", "-", "0", "3", "-", "1", "5", "_", "1", "0", "-",
          "0", "0", "-", "0", "0", "-", "p", "o", "l", "a", ".", "j", "p", "g">>
NotADate == <<"n", "o", "t", "a", "d", "a", "t", "e", ".", "j", "p", "g">>
PngName == <<"x", ".", "p", "n", "g">>
NoExtName == <<"n", "o", "t", "e", "s">>
Ready == <<"r", "e", "a", "d", "y">>
OutJpg == <<"o", ".", "j", "p", "g">>
Letters == <<"a", "b", "c", "d", "e", "f", "g", "h">>

File(name) ==
    [name |-> name, isDir |-> FALSE, files |-> <<>>, readable |-> TRUE,
     toolOk |-> TRUE]

\* a picture on which the external tool fails
BadFile(name) == [File(name) EXCEPT !.toolOk = FALSE]

Dir(name, files) ==
    [name |-> name, isDir |-> TRUE, files |-> files, readable |-> TRUE,
     toolOk |-> TRUE]

\* a directory that cannot be listed
LockedDir(name, files) == [Dir(name, files) EXCEPT !.readable = FALSE]

\* a picture, a subdirectory with a picture and a sub-subdirectory, and a
\* directory named like the default destination
MixedTree ==
    [top |-> <<1, 2, 6>>, topReadable |-> TRUE,
     nodes |-> <<File(Pic1), Dir(<<"a">>, <<3, 4>>), File(Pic2),
                 Dir(<<"b">>, <<5>>), File(Pic1), Dir(Ready, <<7>>), File(Pic2)>>]

\* entries that are skipped, and a subdirectory that cannot be listed
FailingTree ==
    [top |-> <<1, 2, 3, 5, 6, 7>>, topReadable |-> TRUE,
     nodes |-> <<File(PngName), File(NotADate), LockedDir(<<"u">>, <<4>>),
                 File(Pic1), File(NoExtName), BadFile(Pic2), File(Pic1)>>]

\* directories named like a destination, below the top level
NestedDestTree ==
    [top |-> <<1>>, topReadable |-> TRUE,
     nodes |-> <<Dir(<<"a">>, <<2, 4, 6>>), Dir(Ready, <<3>>), File(Pic1),
                 Dir(OutJpg, <<5>>), File(Pic2), File(Pic2)>>]

\* a source directory that cannot be listed
LockedTree ==
    [top |-> <<1>>, topReadable |-> FALSE, nodes |-> <<File(Pic1)>>]

\* d nested subdirectories a/b/... with one picture at the bottom
ChainTree(d) ==
    [top |-> <<1>>, topReadable |-> TRUE,
     nodes |-> [i \in 1..(d + 1) |->
                  IF i <= d THEN Dir(<<Letters[i]>>, <<i + 1>>) ELSE File(Pic1)]]

Trees ==
    {MixedTree, FailingTree, NestedDestTree, LockedTree}
        \cup {ChainTree(d) : d \in 1..MaxDepth}

(***************************************************************************)
(* State.                                                                  *)
(***************************************************************************)
VARIABLES
    conf,       \* the flags of the run and the tree found on disk
    mainpc,     \* main: "readdir", "mkdir", "walk", "wait", "exit", "fatal"
    guard,      \* number of tokens buffered in the channel guard
    wg,         \* the counter of the sync.WaitGroup
    frames,     \* per thread (0 is main, n the goroutine of entry n): the
                \* stack of running actOnFiles calls
    task,       \* per entry: its goroutine [pc, location, source, destination]
    acquired,   \* per entry: sends on guard made to dispatch it
    released,   \* per entry: receives from guard made by its actOnFile
    visits,     \* per entry: number of actOnFile calls on it
    outcome,    \* per entry: what actOnFile did with it
    order,      \* sequential mode: entries in the order actOnFile ran on them
    requests    \* invocations of the external tool made so far

vars == <<conf, mainpc, guard, wg, frames, task, acquired, released, visits,
          outcome, order, requests>>

Nodes == DOMAIN conf.tree.nodes

Node(n) == conf.tree.nodes[n]

Main == 0

Threads == {Main} \cup Nodes

NoTask == [pc |-> "idle", location |-> <<>>, source |-> <<>>, destination |-> <<>>]

\* main.go:22-32, the flags.  src keeps one value; ext, format, text-size
\* and bottom-margin have the defaults below.
SrcPath == << <<"p", "i", "c", "s">> >>

ExtFilter == <<".", "j", "p", "g">>

Paris == <<"P", "a", "r", "i", "s">>

\* main.go:26
DefaultFormat == <<"%", "v", ",", " ", "%", "v">>

\* main.go:27
DefaultTextSize == 100

\* main.go:28
DefaultBottomMargin == 30

DefaultFlags ==
    [ext |-> ExtFilter, format |-> DefaultFormat, textSize |-> DefaultTextSize,
     bottomMargin |-> DefaultBottomMargin]

\* -dest is "ready" (the default) on every tree, and "o.jpg" on the tree that
\* has directories of both names.  destOk: the destination directory exists
\* or os.Mkdir creates it (main.go:76-77).
Confs ==
    {c @@ DefaultFlags :
        c \in {c \in [tree : Trees,
                      useGoroutine : BOOLEAN,
                      maxGoroutines : 0..MaxGoroutines,
                      loc : {<<>>, Paris},
                      dest : {Ready, OutJpg},
                      destOk : BOOLEAN] :
                  c.dest = OutJpg => c.tree = NestedDestTree}}

\* main.go:51-58: nothing has run yet.
Boot ==
    /\ mainpc = "readdir"
    /\ guard = 0
    /\ wg = 0
    /\ frames = [th \in Threads |-> <<>>]
    /\ task = [n \in Nodes |-> NoTask]
    /\ acquired = [n \in Nodes |-> 0]
    /\ released = [n \in Nodes |-> 0]
    /\ visits = [n \in Nodes |-> 0]
    /\ outcome = [n \in Nodes |-> "none"]
    /\ order = <<>>
    /\ requests = {}

Init == conf \in Confs /\ Boot

(***************************************************************************)
(* actOnFiles and actOnFile.                                               *)
(***************************************************************************)
\* main.go:88-92: a call of actOnFiles is a loop over files; step is where
\* the iteration on files[idx] stands: "send", "add", "go" with goroutines
\* (main.go:94, 96, 98), "call" without (main.go:104).
NewFrame(files, location, source, destination) ==
    [files |-> files, idx |-> 1,
     step |-> IF conf.useGoroutine THEN "send" ELSE "call",
     location |-> location, source |-> source, destination |-> destination]

Top(th) == frames[th][Len(frames[th])]

InLoop(th) == frames[th] # <<>> /\ Top(th).idx <= Len(Top(th).files)

SetTop(th, fr) == [frames EXCEPT ![th][Len(frames[th])] = fr]

\* main.go:184-194: the external tool is asked to read the picture in
\* rootDirectory and to write it, annotated, into destination.
\* The request is the command line of main.go:189: the picture read, the
\* picture written, the text drawn (the annotation, normalised), the point
\* size and the geometry.
annotateImageWith(rootDirectory, image, destination, annotation, textInPointSize, bottomMargin) ==
    [image |-> image,
     source |-> Join(rootDirectory, Node(image).name),
     destination |-> Join(destination, Node(image).name),
     annotation |-> annotation,
     text |-> normalizeUtf8Style(annotation),
     pointsize |-> Itoa(textInPointSize),
     geometry |-> annotateFormat(textInPointSize, bottomMargin)]

\* main.go:131: the extension filter.
Excluded(name) == Ext(name) = <<>> \/ ~Contains(conf.ext, Ext(name))

\* A text that fills the template whether there is a location or not.
AnnotationAlways(location, displayedDate) ==
    Sprintf(conf.format, <<location, displayedDate>>)

\* main.go:161-167: the text to draw.
Annotation(location, displayedDate) ==
    IF location # <<>> THEN Sprintf(conf.format, <<location, displayedDate>>)
    ELSE displayedDate

\* A test that recognises the destination by its whole path.
IsDestinationByPath(e, source, destination) == Join(source, e.name) = destination

\* main.go:117: a directory named like the destination is not walked.
IsDestination(e, source, destination) == e.name = Base(destination)

\* A listing that is used whatever ioutil.ReadDir reports.
ListedAnyway(e) == TRUE

\* main.go:120-121: ioutil.ReadDir lists the directory without error.
Listed(e) == e.readable

\* A walk that gives every scanned directory a destination of its own.
NestedOwnDestination(e, location, source, destination) ==
    NewFrame(e.files, e.name, Join(source, e.name),
             Join(Join(source, e.name), Base(destination)))

\* A walk that names a location only where none was given.
NestedKeepingLabel(e, location, source, destination) ==
    NewFrame(e.files, IF location = <<>> THEN e.name ELSE location,
             Join(source, e.name), destination)

\* main.go:118-124: the actOnFiles call made for the listing of directory e.
Nested(e, location, source, destination) ==
    NewFrame(e.files, e.name, Join(source, e.name), destination)

\* main.go:147-167: the date, the displayed date and the annotation of a
\* picture whose name parses.
Captions(name, location) ==
    LET dates == {ParseDate(name)}
        displayed ==
            {[pictureDate |-> d, displayedDate |-> DisplayedDate(d)] : d \in dates}
    IN  {[pictureDate |-> c.pictureDate,
          displayedDate |-> c.displayedDate,
          annotation |-> Annotation(location, c.displayedDate)] : c \in displayed}

\* main.go:116-169: what one call of actOnFile does with entry f: the
\* outcome, the nested actOnFiles call it makes (push) and the tool
\* invocation it makes (reqs), kept with the location, the date and the
\* displayed date it was made from.
actOnFile(f, location, source, destination) ==
    LET e == Node(f)
    IN  IF e.isDir
        THEN IF ~IsDestination(e, source, destination)
             THEN IF ~Listed(e)
                  THEN [outcome |-> "unreadable", push |-> <<>>, reqs |-> {}]
                  ELSE [outcome |-> "listed",
                        push |-> <<Nested(e, location, source, destination)>>,
                        reqs |-> {}]
             ELSE [outcome |-> "destination", push |-> <<>>, reqs |-> {}]
        ELSE IF Excluded(e.name)
             THEN [outcome |-> "excluded", push |-> <<>>, reqs |-> {}]
             ELSE IF ~ParseDate(e.name).ok
                  THEN [outcome |-> "invaliddate", push |-> <<>>, reqs |-> {}]
                  ELSE [outcome |-> IF e.toolOk THEN "annotated" ELSE "toolerror",
                        push |-> <<>>,
                        reqs |->
                            {annotateImageWith(source, f, destination,
                                               c.annotation, conf.textSize,
                                               conf.bottomMargin)
                               @@ [location |-> location,
                                   date |-> c.pictureDate,
                                   displayedDate |-> c.displayedDate] :
                             c \in Captions(e.name, location)}]

(***************************************************************************)
(* main.                                                                   *)
(***************************************************************************)
\* main.go:69-72: the source directory is listed, or the run dies.
ReadSrc ==
    /\ mainpc = "readdir"
    /\ mainpc' = IF conf.tree.topReadable THEN "mkdir" ELSE "fatal"
    /\ UNCHANGED <<conf, guard, wg, frames, task, acquired, released, visits,
                   outcome, order, requests>>

\* main.go:75-84: the destination is src/dest; it exists, or is created, or
\* cannot be created and the run dies.  Then actOnFiles starts on the listing.
MkDest ==
    /\ mainpc = "mkdir"
    /\ IF conf.destOk
       THEN /\ mainpc' = "walk"
            /\ frames' = [frames EXCEPT ![Main] =
                             <<NewFrame(conf.tree.top, conf.loc, SrcPath,
                                        Join(SrcPath, conf.dest))>>]
       ELSE /\ mainpc' = "fatal"
            /\ UNCHANGED frames
    /\ UNCHANGED <<conf, guard, wg, task, acquired, released, visits,
                   outcome, order, requests>>

\* main.go:85: wg.Wait returns once the counter is zero.
Wait ==
    /\ mainpc = "wait"
    /\ wg = 0
    /\ mainpc' = "exit"
    /\ UNCHANGED <<conf, guard, wg, frames, task, acquired, released, visits,
                   outcome, order, requests>>

(***************************************************************************)
(* The loop of actOnFiles, run by main or by the goroutine of a directory. *)
(***************************************************************************)
Running(th) == IF th = Main THEN mainpc = "walk" ELSE task[th].pc = "walk"

\* A gate that admits one task too many.
CanSendOneMore == guard <= conf.maxGoroutines

\* main.go:57, 94: a send on guard completes when the buffer has room.
CanSend == guard < conf.maxGoroutines

\* The goroutines blocked in the deferred receive of actOnFile (main.go:112).
Receivers == {n \in Nodes : task[n].pc = "release"}

\* main.go:94.  On a channel made with capacity 0 nothing is buffered: the
\* send completes only together with a receive, which takes the token.
Acquire(th) ==
    /\ Running(th) /\ InLoop(th) /\ Top(th).step = "send"
    /\ IF conf.maxGoroutines = 0
       THEN \E r \in Receivers :
                /\ released' = [released EXCEPT ![r] = @ + 1]
                /\ task' = [task EXCEPT ![r].pc = "done"]
                /\ UNCHANGED guard
       ELSE /\ CanSend
            /\ guard' = guard + 1
            /\ UNCHANGED <<released, task>>
    /\ acquired' = [acquired EXCEPT ![Top(th).files[Top(th).idx]] = @ + 1]
    /\ frames' = SetTop(th, [Top(th) EXCEPT !.step = "add"])
    /\ UNCHANGED <<conf, mainpc, wg, visits, outcome, order, requests>>

\* A loop that counts only the entries of the source directory itself.
AddTopOnly(th) ==
    /\ Running(th) /\ InLoop(th) /\ Top(th).step = "add"
    /\ wg' = IF th = Main THEN wg + 1 ELSE wg
    /\ frames' = SetTop(th, [Top(th) EXCEPT !.step = "go"])
    /\ UNCHANGED <<conf, mainpc, guard, task, acquired, released, visits,
                   outcome, order, requests>>

\* main.go:96
Add(th) ==
    /\ Running(th) /\ InLoop(th) /\ Top(th).step = "add"
    /\ wg' = wg + 1
    /\ frames' = SetTop(th, [Top(th) EXCEPT !.step = "go"])
    /\ UNCHANGED <<conf, mainpc, guard, task, acquired, released, visits,
                   outcome, order, requests>>

\* A loop that starts every goroutine with the location of the -location
\* flag.
GoTopLabel(th) ==
    /\ Running(th) /\ InLoop(th) /\ Top(th).step = "go"
    /\ LET fr == Top(th)
           f  == fr.files[fr.idx]
       IN  /\ task' = [task EXCEPT ![f] =
                          [pc |-> "start", location |-> conf.loc,
                           source |-> fr.source, destination |-> fr.destination]]
           /\ frames' = SetTop(th, [fr EXCEPT !.idx = @ + 1, !.step = "send"])
    /\ UNCHANGED <<conf, mainpc, guard, wg, acquired, released, visits,
                   outcome, order, requests>>

\* main.go:98-102: the goroutine is started with the loop's current file,
\* location, source and destination as its arguments.
Go(th) ==
    /\ Running(th) /\ InLoop(th) /\ Top(th).step = "go"
    /\ LET fr == Top(th)
           f  == fr.files[fr.idx]
       IN  /\ task' = [task EXCEPT ![f] =
                          [pc |-> "start", location |-> fr.location,
                           source |-> fr.source, destination |-> fr.destination]]
           /\ frames' = SetTop(th, [fr EXCEPT !.idx = @ + 1, !.step = "send"])
    /\ UNCHANGED <<conf, mainpc, guard, wg, acquired, released, visits,
                   outcome, order, requests>>

\* A loop that puts a subdirectory's listing aside until its own is done.
CallDeferring ==
    /\ mainpc = "walk" /\ InLoop(Main) /\ Top(Main).step = "call"
    /\ LET fr  == Top(Main)
           f   == fr.files[fr.idx]
       IN  \E res \in {actOnFile(f, fr.location, fr.source, fr.destination)} :
            /\ frames' = [frames EXCEPT ![Main] =
                            res.push \o SubSeq(@, 1, Len(@) - 1)
                                \o <<[fr EXCEPT !.idx = @ + 1]>>]
            /\ visits' = [visits EXCEPT ![f] = @ + 1]
            /\ outcome' = [outcome EXCEPT ![f] = res.outcome]
            /\ order' = Append(order, f)
            /\ requests' = requests \cup res.reqs
    /\ UNCHANGED <<conf, mainpc, guard, wg, task, acquired, released>>

\* A loop in which a failure of the external tool ends the run.
CallDying ==
    /\ mainpc = "walk" /\ InLoop(Main) /\ Top(Main).step = "call"
    /\ LET fr  == Top(Main)
           f   == fr.files[fr.idx]
       IN  \E res \in {actOnFile(f, fr.location, fr.source, fr.destination)} :
            /\ frames' = [frames EXCEPT ![Main] =
                            SubSeq(@, 1, Len(@) - 1)
                                \o <<[fr EXCEPT !.idx = @ + 1]>> \o res.push]
            /\ visits' = [visits EXCEPT ![f] = @ + 1]
            /\ outcome' = [outcome EXCEPT ![f] = res.outcome]
            /\ order' = Append(order, f)
            /\ requests' = requests \cup res.reqs
            /\ mainpc' = IF res.outcome = "toolerror" THEN "fatal" ELSE mainpc
    /\ UNCHANGED <<conf, guard, wg, task, acquired, released>>

\* main.go:104: without goroutines actOnFile is called in place; a
\* directory's listing is walked before the loop goes on.
Call ==
    /\ mainpc = "walk" /\ InLoop(Main) /\ Top(Main).step = "call"
    /\ LET fr  == Top(Main)
           f   == fr.files[fr.idx]
       IN  \E res \in {actOnFile(f, fr.location, fr.source, fr.destination)} :
            /\ frames' = [frames EXCEPT ![Main] =
                            SubSeq(@, 1, Len(@) - 1)
                                \o <<[fr EXCEPT !.idx = @ + 1]>> \o res.push]
            /\ visits' = [visits EXCEPT ![f] = @ + 1]
            /\ outcome' = [outcome EXCEPT ![f] = res.outcome]
            /\ order' = Append(order, f)
            /\ requests' = requests \cup res.reqs
    /\ UNCHANGED <<conf, mainpc, guard, wg, task, acquired, released>>

\* main.go:106-107: the loop is over and actOnFiles returns: to the
\* actOnFile that called it, or to main (main.go:85).
Return(th) ==
    /\ Running(th) /\ frames[th] # <<>> /\ ~InLoop(th)
    /\ frames' = [frames EXCEPT ![th] = SubSeq(@, 1, Len(@) - 1)]
    /\ IF Len(frames[th]) > 1
       THEN UNCHANGED <<mainpc, task>>
       ELSE IF th = Main
            THEN mainpc' = "wait" /\ UNCHANGED task
            ELSE task' = [task EXCEPT ![th].pc = "release"] /\ UNCHANGED mainpc
    /\ UNCHANGED <<conf, guard, wg, acquired, released, visits, outcome, order,
                   requests>>

(***************************************************************************)
(* The goroutine of one entry (main.go:98-102).                            *)
(***************************************************************************)
\* An actOnFile that releases its slot by hand at the end of the function and
\* forgets to on the early return of a date that does not parse.
StartLeaking(n) ==
    /\ task[n].pc = "start"
    /\ \E res \in {actOnFile(n, task[n].location, task[n].source,
                             task[n].destination)} :
            /\ frames' = [frames EXCEPT ![n] = res.push]
            /\ task' = [task EXCEPT ![n].pc =
                           IF res.outcome = "invaliddate" THEN "done"
                           ELSE IF res.push = <<>> THEN "release" ELSE "walk"]
            /\ visits' = [visits EXCEPT ![n] = @ + 1]
            /\ outcome' = [outcome EXCEPT ![n] = res.outcome]
            /\ requests' = requests \cup res.reqs
    /\ UNCHANGED <<conf, mainpc, guard, wg, acquired, released, order>>

\* An actOnFile that gives its slot back before it walks a directory.
StartFreeing(n) ==
    /\ task[n].pc = "start"
    /\ \E res \in {actOnFile(n, task[n].location, task[n].source,
                             task[n].destination)} :
            /\ frames' = [frames EXCEPT ![n] = res.push]
            /\ task' = [task EXCEPT ![n].pc =
                           IF res.push = <<>> THEN "release" ELSE "walk"]
            /\ guard' = IF res.push = <<>> THEN guard ELSE guard - 1
            /\ released' = IF res.push = <<>> THEN released
                           ELSE [released EXCEPT ![n] = @ + 1]
            /\ visits' = [visits EXCEPT ![n] = @ + 1]
            /\ outcome' = [outcome EXCEPT ![n] = res.outcome]
            /\ requests' = requests \cup res.reqs
    /\ UNCHANGED <<conf, mainpc, wg, acquired, order>>

\* main.go:99-101, 109-169: Done and the receive from guard are deferred,
\* then actOnFile runs: up to its return for a file or a directory it does
\* not walk, up to the start of the nested actOnFiles otherwise.
Start(n) ==
    /\ task[n].pc = "start"
    /\ \E res \in {actOnFile(n, task[n].location, task[n].source,
                             task[n].destination)} :
            /\ frames' = [frames EXCEPT ![n] = res.push]
            /\ task' = [task EXCEPT ![n].pc =
                           IF res.push = <<>> THEN "release" ELSE "walk"]
            /\ visits' = [visits EXCEPT ![n] = @ + 1]
            /\ outcome' = [outcome EXCEPT ![n] = res.outcome]
            /\ requests' = requests \cup res.reqs
    /\ UNCHANGED <<conf, mainpc, guard, wg, acquired, released, order>>

\* An actOnFile that returns without receiving from guard.
ReleaseKeeping(n) ==
    /\ task[n].pc = "release"
    /\ task' = [task EXCEPT ![n].pc = "done"]
    /\ UNCHANGED <<conf, mainpc, guard, wg, frames, acquired, released, visits,
                   outcome, order, requests>>

\* main.go:111-113: the deferred receive from guard, when actOnFile returns.
Release(n) ==
    /\ task[n].pc = "release"
    /\ guard > 0
    /\ guard' = guard - 1
    /\ released' = [released EXCEPT ![n] = @ + 1]
    /\ task' = [task EXCEPT ![n].pc = "done"]
    /\ UNCHANGED <<conf, mainpc, wg, frames, acquired, visits, outcome, order,
                   requests>>

\* main.go:99: the deferred sy.Done(), when the goroutine's function returns.
Done(n) ==
    /\ task[n].pc = "done"
    /\ wg' = wg - 1
    /\ task' = [task EXCEPT ![n].pc = "end"]
    /\ UNCHANGED <<conf, mainpc, guard, frames, acquired, released, visits,
                   outcome, order, requests>>

Next ==
    \/ ReadSrc
    \/ MkDest
    \/ Wait
    \/ Call
    \/ \E th \in Threads : Acquire(th)
    \/ \E th \in Threads : Add(th)
    \/ \E th \in Threads : Go(th)
    \/ \E th \in Threads : Return(th)
    \/ \E n \in Nodes : Start(n)
    \/ \E n \in Nodes : Release(n)
    \/ \E n \in Nodes : Done(n)

Spec == Init /\ [][Next]_vars

\* The goroutines and the main thread are scheduled fairly: a step that
\* stays possible is eventually taken.
FairSpec == Spec /\ WF_vars(Next)

(***************************************************************************)
(* Runs on one picture, for what the program makes of a name and of its    *)
(* flags.                                                                  *)
(***************************************************************************)
Pad2(i) == IF i < 10 THEN <<"0">> \o Itoa(i) ELSE Itoa(i)

Time10 == <<"1", "0", "-", "0", "0", "-", "0", "0">>
TimeLate == <<"2", "3", "-", "5", "9", "-", "5", "9">>
TimeOneDigitHour == <<"9", "-", "0", "5", "-", "0", "7">>
TimeHour24 == <<"2", "4", "-", "0", "0", "-", "0", "0">>
TimeFraction == <<"1", "0", "-", "0", "0", "-", "0", "0", ".", "5">>

Times == {Time10, TimeLate, TimeOneDigitHour, TimeHour24, TimeFraction}

PolaPng == <<"-", "p", "o", "l", "a", ".", "p", "n", "g">>

NameOf(y, m, d, time, suffix) ==
    Itoa(y) \o <<"-">> \o Pad2(m) \o <<"-">> \o Pad2(d) \o <<"_">> \o time \o suffix

OneDigitMonth ==
    <<"2", "0", "2", "3", "-", "1", "-", "0", "1", "_", "1", "0", "-", "0",
      "0", "-", "0", "0", "-", "p", "o", "l", "a", ".", "j", "p", "g">>
LeadingLetter ==
    <<"x", "2", "0", "2", "3", "-", "0", "1", "-", "0", "1", "_", "1", "0",
      "-", "0", "0", "-", "0", "0", "-", "p", "o", "l", "a", ".", "j", "p",
      "g">>
TrailingLetter ==
    <<"2", "0", "2", "3", "-", "0", "1", "-", "0", "1", "_", "1", "0", "-",
      "0", "0", "-", "0", "0", "-", "p", "o", "l", "a", ".", "j", "p", "g",
      "x">>
ShortSuffix ==
    <<"2", "0", "2", "3", "-", "0", "1", "-", "0", "1", "_", "1", "0", "-",
      "0", "0", "-", "0", "0", "-", "p", "o", "l", "a", ".", "j", "p">>

Names ==
    {NameOf(y, m, d, t, x) : y \in 2023..MaxYear, m \in 0..MaxMonth,
                             d \in 0..MaxDay, t \in Times,
                             x \in {PolaSuffix, PolaPng}}
        \cup {NotADate, PngName, NoExtName, OneDigitMonth, LeadingLetter,
              TrailingLetter, ShortSuffix}

OneFile(name) ==
    [top |-> <<1>>, topReadable |-> TRUE, nodes |-> <<File(name)>>]

\* one subdirectory holding one picture
LabelTree(label, name) ==
    [top |-> <<1>>, topReadable |-> TRUE,
     nodes |-> <<Dir(label, <<2>>), File(name)>>]

\* "Céret" with its accent as a combining character
Ceret == <<"C", "e", "U+0301", "r", "e", "t">>

ParenFormat == <<"%", "v", " ", "(", "%", "v", ")">>
DashFormat == <<"%", "s", " ", "-", " ", "%", "s">>
JpegFilter == <<".", "j", "p", "e", "g">>
PngJpgFilter == <<".", "p", "n", "g", ".", "j", "p", "g">>

NameConfs ==
    {[tree |-> OneFile(n), useGoroutine |-> FALSE,
      maxGoroutines |-> MaxGoroutines, loc |-> Paris, dest |-> Ready,
      destOk |-> TRUE] @@ DefaultFlags : n \in Names}

FlagConfs ==
    [tree : {OneFile(Pic1), OneFile(Pic2), OneFile(PngName),
             LabelTree(Ceret, Pic1), LabelTree(<<"a">>, Pic2)},
     useGoroutine : BOOLEAN,
     maxGoroutines : {MaxGoroutines},
     loc : {<<>>, Paris, Ceret},
     dest : {Ready},
     destOk : {TRUE},
     ext : {ExtFilter, JpegFilter, PngJpgFilter},
     format : {DefaultFormat, ParenFormat, DashFormat},
     textSize : {DefaultTextSize},
     bottomMargin : {DefaultBottomMargin}]

InputInit == conf \in NameConfs \cup FlagConfs /\ Boot

InputSpec == InputInit /\ [][Next]_vars

(***************************************************************************)
(* Runs on one picture, for the geometry.                                  *)
(***************************************************************************)
TextSizes == (-MaxTextSize)..MaxTextSize

BottomMargins ==
    {DefaultBottomMargin + MarginStep * j : j \in (-MaxMarginSteps)..MaxMarginSteps}

GeometryConf(ts, bm, g) ==
    [DefaultFlags EXCEPT !.textSize = ts, !.bottomMargin = bm]
        @@ [tree |-> OneFile(Pic1), useGoroutine |-> g,
            maxGoroutines |-> MaxGoroutines, loc |-> Paris, dest |-> Ready,
            destOk |-> TRUE]

GeometryConfs ==
    {GeometryConf(ts, bm, FALSE) : ts \in TextSizes, bm \in BottomMargins}
        \cup {GeometryConf(DefaultTextSize, bm, TRUE) : bm \in BottomMargins}

GeometryInit == conf \in GeometryConfs /\ Boot

GeometrySpec == GeometryInit /\ [][Next]_vars

(***************************************************************************)
(* Runs on a source directory without subdirectories to walk.              *)
(***************************************************************************)
\* pictures, entries that are skipped, and a directory named like the
\* destination
FlatTree ==
    [top |-> <<1, 2, 4, 5, 6>>, topReadable |-> TRUE,
     nodes |-> <<File(Pic1), Dir(Ready, <<3>>), File(Pic2), File(NotADate),
                 BadFile(Pic2), File(PngName)>>]

EmptyTree == [top |-> <<>>, topReadable |-> TRUE, nodes |-> <<>>]

FlatConfs ==
    {c @@ DefaultFlags :
        c \in [tree : {FlatTree, OneFile(Pic1), EmptyTree},
              useGoroutine : BOOLEAN,
              maxGoroutines : 0..MaxGoroutines,
              loc : {Paris},
              dest : {Ready},
              destOk : BOOLEAN]}

FlatInit == conf \in FlatConfs /\ Boot

FlatFairSpec == FlatInit /\ [][Next]_vars /\ WF_vars(Next)

(***************************************************************************)
(* What the tree says about an entry, independently of the run.            *)
(***************************************************************************)
InSeq(n, files) == \E i \in DOMAIN files : files[i] = n

\* the directory whose listing holds n; Main (0) stands for the source root
Parent(n) ==
    IF InSeq(n, conf.tree.top) THEN 0
    ELSE CHOOSE p \in Nodes : InSeq(n, Node(p).files)

RECURSIVE Ancestors(_)
Ancestors(n) == IF Parent(n) = 0 THEN {} ELSE {Parent(n)} \cup Ancestors(Parent(n))

\* the path of directory d
RECURSIVE PathOf(_)
PathOf(d) == IF d = 0 THEN SrcPath ELSE Join(PathOf(Parent(d)), Node(d).name)

\* d is a directory whose entries are to be processed
Walked(d) == Node(d).isDir /\ Node(d).name # conf.dest /\ Node(d).readable

\* the entries the run is to process
Reachable == {n \in Nodes : \A a \in Ancestors(n) : Walked(a)}

Active == {n \in Nodes : task[n].pc \in {"start", "walk", "release"}}

Unfinished == {n \in Nodes : task[n].pc \notin {"idle", "end"}}

Holders == {n \in Nodes : acquired[n] > released[n]}

Parallel == conf.useGoroutine

\* the threads that have added an entry to wg and not yet started its goroutine
Starting == {th \in Threads : Running(th) /\ InLoop(th) /\ Top(th).step = "go"}

\* the order in which a depth-first walk in listing order meets the entries
RECURSIVE WalkOrder(_)
WalkOrder(files) ==
    IF files = <<>> THEN <<>>
    ELSE LET f == Head(files)
         IN  <<f>> \o (IF Walked(f) THEN WalkOrder(Node(f).files) ELSE <<>>)
                 \o WalkOrder(Tail(files))

IsPrefix(s, t) == Len(s) <= Len(t) /\ SubSeq(t, 1, Len(s)) = s

\* the outcomes that are failures of one entry
Failures == {"excluded", "invaliddate", "toolerror"}

GoodPicture(n) ==
    /\ ~Node(n).isDir
    /\ ~Excluded(Node(n).name)
    /\ ParseDate(Node(n).name).ok
    /\ Node(n).toolOk

\* nothing was done for, or with, entry n
Untouched(n) ==
    visits[n] = 0 /\ acquired[n] = 0 /\ task[n].pc = "idle" /\ outcome[n] = "none"

\* path.Dir(p)
DirOf(p) == SubSeq(p, 1, Len(p) - 1)

\* the name of the directory holding n, the -location flag at top level
Label(n) == IF Parent(n) = 0 THEN conf.loc ELSE Node(Parent(n)).name

(***************************************************************************)
(* C1: in parallel mode with capacity K >= 1, a readable source directory  *)
(* and a destination that exists or can be made, the run always            *)
(* terminates: as long as main has not passed wg.Wait and exited, some     *)
(* thread can take a step (no deadlock).                                   *)
(***************************************************************************)
C1_NoDeadlock ==
    (Parallel /\ conf.maxGoroutines >= 1 /\ conf.tree.topReadable /\ conf.destOk)
        => (mainpc = "exit" \/ ENABLED Next)

(***************************************************************************)
(* C2: in parallel mode at most K entries hold a slot of guard (acquired   *)
(* for them in actOnFiles, not yet released by their actOnFile), and every *)
(* goroutine running actOnFile holds one.                                  *)
(***************************************************************************)
C2_AtMostK ==
    Parallel =>
        /\ Cardinality(Holders) <= conf.maxGoroutines
        /\ \A n \in Nodes : acquired[n] - released[n] \in {0, 1}
        /\ Active \subseteq Holders

C2_GateFull ==
    /\ Parallel
    /\ conf.maxGoroutines = 2
    /\ Cardinality(Holders) = 2
    /\ Cardinality(Active) = 2
    /\ \E th \in Threads : Running(th) /\ InLoop(th) /\ Top(th).step = "send"

(***************************************************************************)
(* C3: the WaitGroup counter is never negative and counts exactly the      *)
(* dispatched tasks that are unfinished, at any level: a goroutine adds    *)
(* its entries only before its own Done, so the counter is positive as     *)
(* long as work remains and main passes wg.Wait only when none does.       *)
(***************************************************************************)
C3_Barrier ==
    /\ wg >= 0
    /\ wg = Cardinality(Unfinished) + Cardinality(Starting)
    /\ \A n \in Nodes : frames[n] # <<>> => task[n].pc = "walk"
    /\ Unfinished # {} => wg > 0
    /\ mainpc = "exit" => Unfinished = {} /\ Starting = {}

C3_NestedPending ==
    /\ mainpc = "wait"
    /\ wg > 0
    /\ \E n \in Unfinished : Parent(n) # 0 /\ task[Parent(n)].pc = "end"

(***************************************************************************)
(* C4: every slot acquired for an entry is released exactly once by its    *)
(* actOnFile, whatever the entry is: never released before being acquired  *)
(* or twice, released once the task has returned, and no slot is held when *)
(* all tasks have finished.                                                *)
(***************************************************************************)
C4_ReleasedOnce ==
    Parallel =>
        /\ \A n \in Nodes :
              /\ released[n] <= acquired[n] /\ acquired[n] <= 1
              /\ task[n].pc \in {"done", "end"} => released[n] = 1
              /\ task[n].pc \in {"start", "walk", "release"} => released[n] = 0
        /\ (mainpc = "exit" \/ (mainpc = "wait" /\ Unfinished = {})) =>
              guard = 0 /\ Holders = {}

C4_AllPathsReleased ==
    /\ Parallel
    /\ mainpc = "exit"
    /\ {"unreadable", "excluded", "invaliddate", "toolerror", "annotated"}
          \subseteq {outcome[n] : n \in Nodes}
    /\ \A n \in Nodes : outcome[n] # "none" => released[n] = 1

(***************************************************************************)
(* C5: without goroutines nothing is sent on guard and nothing is added to *)
(* wg, no goroutine exists, and actOnFile runs on the entries in listing   *)
(* order, a subdirectory's entries right after the subdirectory and before *)
(* the next entry of its parent.                                           *)
(***************************************************************************)
C5_ListingOrder ==
    ~Parallel =>
        /\ guard = 0 /\ wg = 0
        /\ \A n \in Nodes :
              acquired[n] = 0 /\ released[n] = 0 /\ task[n] = NoTask
                  /\ frames[n] = <<>>
        /\ IsPrefix(order, WalkOrder(conf.tree.top))
        /\ mainpc \in {"wait", "exit"} => order = WalkOrder(conf.tree.top)

C5_DepthFirstDone ==
    /\ ~Parallel
    /\ mainpc = "exit"
    /\ conf.tree = MixedTree
    /\ order = <<1, 2, 3, 4, 5, 6>>

(***************************************************************************)
(* C6: a failing entry (excluded extension, date that does not parse, tool *)
(* error) costs the gate nothing but its own slot, which it gives back,    *)
(* and stops nothing else: the run never dies once actOnFile has run, and  *)
(* when it ends every entry to process has been processed once, every good *)
(* picture among them annotated.                                           *)
(***************************************************************************)
C6_FailureContained ==
    /\ mainpc = "fatal" => \A n \in Nodes : visits[n] = 0
    /\ \A n \in Nodes :
          (outcome[n] \in Failures /\ Parallel /\ task[n].pc \in {"done", "end"})
              => acquired[n] = 1 /\ released[n] = 1
    /\ guard = Cardinality(Holders)
    /\ mainpc = "exit" =>
          \A n \in Reachable :
              /\ visits[n] = 1
              /\ GoodPicture(n) =>
                    outcome[n] = "annotated" /\ \E r \in requests : r.image = n

C6_GoodAfterBad ==
    /\ ~Parallel
    /\ mainpc = "exit"
    /\ conf.tree = FailingTree
    /\ outcome[1] = "excluded" /\ outcome[2] = "invaliddate"
    /\ outcome[6] = "toolerror" /\ outcome[7] = "annotated"

(***************************************************************************)
(* C7: a subdirectory that cannot be listed hides its own entries only:    *)
(* nothing below it is dispatched, everything else is processed; the run   *)
(* dies only when the source directory cannot be listed or the destination *)
(* cannot be created, and then nothing has been dispatched.                *)
(***************************************************************************)
C7_SubtreeSkipped ==
    /\ \A n \in Nodes :
          (\E a \in Ancestors(n) : ~Node(a).readable) => Untouched(n)
    /\ mainpc = "exit" => \A n \in Reachable : visits[n] = 1
    /\ mainpc = "fatal" <=>
          /\ mainpc \notin {"readdir", "mkdir"}
          /\ ~conf.tree.topReadable \/ ~conf.destOk
    /\ (~conf.tree.topReadable \/ ~conf.destOk) =>
          /\ \A n \in Nodes : Untouched(n)
          /\ \A th \in Threads : frames[th] = <<>>

C7_SiblingsProcessed ==
    /\ Parallel
    /\ mainpc = "exit"
    /\ conf.tree = FailingTree
    /\ outcome[3] = "unreadable"
    /\ Untouched(4)
    /\ visits[5] = 1 /\ visits[6] = 1 /\ outcome[7] = "annotated"

(***************************************************************************)
(* C8: in both modes and at every depth a directory named like the base    *)
(* name of the destination is never listed, and nothing below it is ever   *)
(* dispatched or handed to the tool, also when its name has an extension   *)
(* the filter accepts.                                                     *)
(***************************************************************************)
C8_DestinationSkipped ==
    \A n \in Nodes :
        /\ (Node(n).isDir /\ Node(n).name = conf.dest) =>
              outcome[n] \in {"none", "destination"} /\ frames[n] = <<>>
        /\ (\E a \in Ancestors(n) : Node(a).name = conf.dest) =>
              Untouched(n) /\ \A r \in requests : r.image # n

C8_NestedJpgSkipped ==
    /\ Parallel
    /\ mainpc = "exit"
    /\ conf.tree = NestedDestTree
    /\ conf.dest = OutJpg
    /\ ~Excluded(Node(4).name)
    /\ Parent(4) # 0
    /\ outcome[4] = "destination"
    /\ outcome[2] = "listed" /\ outcome[3] = "annotated"
    /\ Untouched(5)

(***************************************************************************)
(* C9 as stated: the tool writes every picture into the directory `dest`   *)
(* of the directory the picture was found in.                              *)
(***************************************************************************)
C9_DestUnderScannedDir ==
    \A r \in requests : DirOf(r.destination) = Join(DirOf(r.source), conf.dest)

(***************************************************************************)
(* C9 amended: the tool reads every picture from the directory it was      *)
(* found in and writes it into the one directory `dest` of the source      *)
(* root, whatever the nesting level of the picture.                        *)
(***************************************************************************)
C9_DestUnderRoot ==
    \A r \in requests :
        /\ DirOf(r.source) = PathOf(Parent(r.image))
        /\ r.destination = Join(Join(SrcPath, conf.dest), Node(r.image).name)

C9_NestedRequest ==
    \E r \in requests :
        /\ Parent(r.image) # 0
        /\ Parent(Parent(r.image)) # 0
        /\ Len(DirOf(r.source)) = Len(SrcPath) + 2
        /\ Len(DirOf(r.destination)) = Len(SrcPath) + 1

(***************************************************************************)
(* C10: the location of a picture is the name of the directory that holds  *)
(* it, and the -location flag for a picture of the source directory        *)
(* itself; a goroutine carries that label from the moment it is started.   *)
(***************************************************************************)
C10_LastDirectoryName ==
    /\ \A r \in requests : r.location = Label(r.image)
    /\ \A n \in Nodes : task[n].pc # "idle" => task[n].location = Label(n)

C10_LabelReplaced ==
    /\ Parallel
    /\ conf.loc = Paris
    /\ conf.tree = MixedTree
    /\ \E r \in requests : r.image = 1 /\ r.location = Paris
    /\ \E r \in requests : r.image = 3 /\ r.location = <<"a">>
    /\ \E r \in requests : r.image = 5 /\ r.location = <<"b">>

(***************************************************************************)
(* What the specification says of a name, a date, a caption and an offset. *)
(***************************************************************************)
\* YYYY-MM-DD_HH-MM-SS-pola.jpg: digits and separators at their places, and
\* a date and a time of day that exist
MatchesLayout(name) ==
    /\ Len(name) = 28
    /\ \A i \in {1, 2, 3, 4, 6, 7, 9, 10, 12, 13, 15, 16, 18, 19} :
          name[i] \in Digits
    /\ name[5] = "-" /\ name[8] = "-" /\ name[11] = "_"
    /\ name[14] = "-" /\ name[17] = "-"
    /\ Drop(name, 20) = PolaSuffix
    /\ LET y  == 100 * Num2(SubSeq(name, 1, 2)) + Num2(SubSeq(name, 3, 4))
           mo == Num2(SubSeq(name, 6, 7))
           d  == Num2(SubSeq(name, 9, 10))
       IN  /\ mo \in 1..12
           /\ d >= 1 /\ d <= DaysIn(mo, y)
           /\ Num2(SubSeq(name, 12, 13)) < 24
           /\ Num2(SubSeq(name, 15, 16)) < 60
           /\ Num2(SubSeq(name, 18, 19)) < 60

PassesFilter(name) == Ext(name) # <<>> /\ Contains(conf.ext, Ext(name))

Invoked(n) == \E r \in requests : r.image = n

FrenchMonth(m) == formats[m][2]

ExpectedDate(d, m, y) ==
    (IF d = 1 THEN <<"1", "e", "r">> ELSE Pad2(d))
        \o <<" ">> \o FrenchMonth(m) \o <<" ">> \o Itoa(y)

\* the text of a two-slot template around its slots
TemplateParts(format) ==
    CASE format = DefaultFormat ->
            [pre |-> <<>>, mid |-> <<",", " ">>, post |-> <<>>]
      [] format = ParenFormat ->
            [pre |-> <<>>, mid |-> <<" ", "(">>, post |-> <<")">>]
      [] format = DashFormat ->
            [pre |-> <<>>, mid |-> <<" ", "-", " ">>, post |-> <<>>]

ExpectedCaption(format, label, date) ==
    IF label = <<>> THEN date
    ELSE TemplateParts(format).pre \o label \o TemplateParts(format).mid
             \o date \o TemplateParts(format).post

\* 175 - textSize / 3 - bottomMargin, truncated toward zero
ExpectedOffset(textSize, bottomMargin) ==
    LET thirds == 525 - textSize - 3 * bottomMargin
    IN  IF thirds >= 0 THEN thirds \div 3 ELSE -((-thirds) \div 3)

(***************************************************************************)
(* C11: a file that actOnFile has handled has been handed to the external  *)
(* tool if and only if its extension is not empty, is a substring of the   *)
(* extension filter, and its name has the layout                           *)
(* YYYY-MM-DD_HH-MM-SS-pola.jpg; any other file is skipped (excluded or    *)
(* unparsable date) without an invocation, and the run never dies.         *)
(***************************************************************************)
C11_InvokedIffLayout ==
    /\ mainpc # "fatal"
    /\ \A n \in Nodes :
          (~Node(n).isDir /\ visits[n] > 0) =>
              /\ Invoked(n) <=> (PassesFilter(Node(n).name)
                                    /\ MatchesLayout(Node(n).name))
              /\ ~Invoked(n) => outcome[n] \in {"excluded", "invaliddate"}

(***************************************************************************)
(* C12: the displayed date of every request is "1er <month> <year>" when   *)
(* the day is 1 and "<two-digit day> <month> <year>" otherwise, <month>    *)
(* being the French name of the table; it holds the French name of its     *)
(* month and none of the twelve English names, and depends on the day, the *)
(* month and the year only.                                                *)
(***************************************************************************)
C12_DisplayedDate ==
    \A r \in requests :
        /\ r.date.ok /\ r.date = ParseDate(Node(r.image).name)
        /\ r.displayedDate =
              ExpectedDate(r.date.day, r.date.month, r.date.year)
        /\ Contains(r.displayedDate, FrenchMonth(r.date.month))
        /\ \A m \in 1..12 : ~Contains(r.displayedDate, LongMonthNames[m])

C12_FirstOfAugust ==
    \E r \in requests :
        /\ r.date.month = 8 /\ r.date.day = 1 /\ r.date.hour = 23
        /\ r.displayedDate =
            <<"1", "e", "r", " ", "a", "o", "U+00FB", "t", " ", "2", "0",
              "2", "3">>

(***************************************************************************)
(* C13: the caption of every request is the template filled with the       *)
(* location and the displayed date, in that order, when there is a         *)
(* location, and the displayed date alone when there is none; Pic1 with    *)
(* the location "Paris" and the default template gives                     *)
(* "Paris, 1er janvier 2023", Pic2 without location "15 mars 2023".        *)
(***************************************************************************)
C13_Caption ==
    \A r \in requests :
        /\ r.annotation = ExpectedCaption(conf.format, r.location, r.displayedDate)
        /\ Node(r.image).name = Pic1 /\ r.location = Paris
                /\ conf.format = DefaultFormat
              => r.annotation =
                  <<"P", "a", "r", "i", "s", ",", " ", "1", "e", "r", " ",
                    "j", "a", "n", "v", "i", "e", "r", " ", "2", "0", "2",
                    "3">>
        /\ Node(r.image).name = Pic2 /\ r.location = <<>>
              => r.annotation =
                  <<"1", "5", " ", "m", "a", "r", "s", " ", "2", "0", "2",
                    "3">>

C13_ParisCaption ==
    /\ conf.loc = Paris /\ conf.format = DefaultFormat
    /\ \E r \in requests :
          /\ Node(r.image).name = Pic1
          /\ r.annotation =
              <<"P", "a", "r", "i", "s", ",", " ", "1", "e", "r", " ", "j",
                "a", "n", "v", "i", "e", "r", " ", "2", "0", "2", "3">>
          /\ r.text = r.annotation

(***************************************************************************)
(* C14: for text sizes in -MaxTextSize..MaxTextSize and the bottom margins *)
(* of BottomMargins, the geometry of every request is "+0+" followed by    *)
(* 175 - textSize / 3 - bottomMargin truncated toward zero, written with   *)
(* its sign when negative; text size 100 and bottom margin 30 give         *)
(* "+0+111".                                                               *)
(***************************************************************************)
C14_Geometry ==
    \A r \in requests :
        /\ r.geometry = <<"+", "0", "+">>
                           \o Itoa(ExpectedOffset(conf.textSize, conf.bottomMargin))
        /\ conf.textSize = 100 /\ conf.bottomMargin = 30
              => r.geometry = <<"+", "0", "+", "1", "1", "1">>

C14_NegativeOffset ==
    /\ conf.textSize = 100 /\ conf.bottomMargin = 150
    /\ \E r \in requests : r.geometry = <<"+", "0", "+", "-", "8">>

(***************************************************************************)
(* What a run without goroutines hands to the external tool.               *)
(***************************************************************************)
\* the entry a thread is dispatching: sending on guard for it, adding it to
\* wg or starting its goroutine
Dispatching(n) ==
    \E th \in Threads :
        /\ Running(th) /\ InLoop(th)
        /\ Top(th).files[Top(th).idx] = n
        /\ Top(th).step \in {"send", "add", "go"}

Flat == \A n \in Nodes : Node(n).isDir => Node(n).name = conf.dest

RECURSIVE SequentialRequests(_, _, _, _)
SequentialRequests(files, location, source, destination) ==
    IF files = <<>> THEN {}
    ELSE LET res == actOnFile(Head(files), location, source, destination)
         IN  res.reqs
               \cup (IF res.push = <<>> THEN {}
                     ELSE SequentialRequests(res.push[1].files,
                                             res.push[1].location,
                                             res.push[1].source,
                                             res.push[1].destination))
               \cup SequentialRequests(Tail(files), location, source, destination)

\* a run with goroutines on a flat tree that main can list and write to
FlatRun ==
    /\ Parallel /\ conf.maxGoroutines >= 1 /\ Flat
    /\ conf.tree.topReadable /\ conf.destOk

\* main is past wg.Wait, every entry of the source directory has been
\* dispatched and run once, every slot has been given back
FlatEnded ==
    /\ mainpc = "exit"
    /\ guard = 0 /\ wg = 0 /\ Holders = {}
    /\ \A i \in DOMAIN conf.tree.top :
          LET n == conf.tree.top[i]
          IN  acquired[n] = 1 /\ visits[n] = 1 /\ released[n] = 1
                  /\ task[n].pc = "end"

\* source path, destination path, caption and geometry
Command(r) ==
    [source |-> r.source, destination |-> r.destination, caption |-> r.text,
     geometry |-> r.geometry]

(***************************************************************************)
(* C15 as stated: with goroutines, every entry being dispatched has all    *)
(* the subdirectories above it holding their slot of guard; hence an entry *)
(* below K or more subdirectories is never dispatched, and with K = 0 no   *)
(* entry ever is.                                                          *)
(***************************************************************************)
C15_AncestorsHoldSlots ==
    Parallel =>
        /\ \A n \in Nodes :
              Dispatching(n) => Ancestors(n) \subseteq Holders
        /\ \A n \in Nodes :
              Cardinality(Ancestors(n)) >= conf.maxGoroutines => Untouched(n)
        /\ conf.maxGoroutines = 0 => \A n \in Nodes : Untouched(n)

(***************************************************************************)
(* C15 amended: with goroutines, the goroutine of a directory keeps its    *)
(* slot of guard as long as it dispatches the directory's entries, so      *)
(* every entry being dispatched below the source directory has its parent  *)
(* directory running its loop with its slot still held; hence with K = 1   *)
(* no entry of a subdirectory is ever dispatched, and with K = 0 no entry  *)
(* at all.  A directory further up may have given its slot back already.   *)
(***************************************************************************)
C15_ParentHoldsSlot ==
    Parallel =>
        /\ \A n \in Nodes :
              (Dispatching(n) /\ Parent(n) # 0) =>
                  /\ Parent(n) \in Holders
                  /\ task[Parent(n)].pc = "walk"
                  /\ released[Parent(n)] = 0
        /\ conf.maxGoroutines = 1 =>
              \A n \in Nodes : Parent(n) # 0 => Untouched(n)
        /\ conf.maxGoroutines = 0 => \A n \in Nodes : Untouched(n)

C15_DeepEntryDispatched ==
    /\ Parallel
    /\ conf.maxGoroutines = 2
    /\ conf.tree = ChainTree(2)
    /\ Dispatching(3) /\ acquired[3] = 1
    /\ Holders = {2, 3}
    /\ released[1] = 1

(***************************************************************************)
(* C16: with goroutines, a capacity K >= 1, a source directory that is     *)
(* listed and holds no subdirectory but ones named like the destination,   *)
(* every fair run ends: main passes wg.Wait, every entry of the source     *)
(* directory has been dispatched once and run once, and every slot has     *)
(* been given back.                                                        *)
(***************************************************************************)
C16_FlatTerminates == FlatRun ~> FlatEnded

C16_FlatDone ==
    /\ Parallel
    /\ conf.maxGoroutines = 1
    /\ conf.tree = FlatTree
    /\ mainpc = "exit"
    /\ \A n \in {1, 2, 4, 5, 6} : visits[n] = 1 /\ released[n] = 1
    /\ Untouched(3)

(***************************************************************************)
(* C17: no entry is ever visited twice, with or without goroutines; a run  *)
(* never hands the tool anything the run without goroutines does not, and  *)
(* a run that ends has handed it exactly the same requests (source path,   *)
(* destination path, caption, geometry).                                   *)
(***************************************************************************)
C17_SameRequests ==
    LET sequential ==
            SequentialRequests(conf.tree.top, conf.loc, SrcPath,
                               Join(SrcPath, conf.dest))
    IN  /\ \A n \in Nodes : visits[n] <= 1
        /\ requests \subseteq sequential
        /\ mainpc = "exit" =>
              /\ requests = sequential
              /\ {Command(r) : r \in requests} = {Command(r) : r \in sequential}

C17_ParallelNestedRequests ==
    /\ Parallel
    /\ mainpc = "exit"
    /\ conf.tree = MixedTree
    /\ {r.image : r \in requests} = {1, 3, 5}
    /\ \E r \in requests : r.image = 3 /\ r.location = <<"a">>

=============================================================================
